---------------------------- MODULE Spec2Model ----------------------------
(***************************************************************************)
(* Model of the package-installer skill:                                   *)
(*   scripts/environment_manager.py  (EnvironmentManager)                  *)
(*   scripts/package_installer.py    (PackageInstaller)                    *)
(*   scripts/security_checker.py     (SecurityChecker)                     *)
(*                                                                         *)
(* Strings the code inspects character by character (package names,        *)
(* versions, console answers) are sequences of one-character strings, so   *)
(* that lower(), strip(), regular-expression matches and substring         *)
(* searches are computed as the code computes them.                        *)
(*                                                                         *)
(* The outside world (disk, registry, package-manager subprocess, console, *)
(* audit-log file) answers nondeterministically: every operation draws the *)
(* answers it needs with \E.                                               *)
(***************************************************************************)
EXTENDS Integers, Sequences, FiniteSets, TLC

(***************************************************************************)
(* Bounds                                                                  *)
(***************************************************************************)
MaxLog == 2

(***************************************************************************)
(* Character-level helpers (Python str methods and re patterns)            *)
(***************************************************************************)
UpperSeq == <<"A","B","C","D","E","F","G","H","I","J","K","L","M",
              "N","O","P","Q","R","S","T","U","V","W","X","Y","Z">>

LowerSeq == <<"a","b","c","d","e","f","g","h","i","j","k","l","m",
              "n","o","p","q","r","s","t","u","v","w","x","y","z">>

DigitSeq == <<"0","1","2","3","4","5","6","7","8","9">>

Range(s) == {s[i] : i \in DOMAIN s}

Letters == Range(UpperSeq) \cup Range(LowerSeq)

Digits == Range(DigitSeq)

Whitespace == {" "}

LowerChar(c) ==
    IF c \in Range(UpperSeq)
    THEN LowerSeq[CHOOSE i \in DOMAIN UpperSeq : UpperSeq[i] = c]
    ELSE c

\* str.lower()
Lower(s) == [i \in DOMAIN s |-> LowerChar(s[i])]

\* str.strip()
Strip(s) ==
    LET keep == {i \in DOMAIN s : s[i] \notin Whitespace}
    IN  IF keep = {} THEN <<>>
        ELSE LET lo == CHOOSE i \in keep : \A j \in keep : i <= j
                 hi == CHOOSE i \in keep : \A j \in keep : j <= i
             IN  SubSeq(s, lo, hi)

\* pattern in s / re.search(pattern, s) for a literal pattern
Contains(s, p) ==
    \E i \in 0..(Len(s) - Len(p)) : SubSeq(s, i + 1, i + Len(p)) = p

\* s.startswith(p)
StartsWith(s, p) == Len(s) >= Len(p) /\ SubSeq(s, 1, Len(p)) = p

\* s.endswith(p)
EndsWith(s, p) ==
    Len(s) >= Len(p) /\ SubSeq(s, Len(s) - Len(p) + 1, Len(s)) = p

\* s[n:]
DropFirst(s, n) == IF n >= Len(s) THEN <<>> ELSE SubSeq(s, n + 1, Len(s))

\* s.split(c)
RECURSIVE Split(_, _)
Split(s, c) ==
    LET at == {i \in DOMAIN s : s[i] = c}
    IN  IF at = {} THEN <<s>>
        ELSE LET i == CHOOSE k \in at : \A j \in at : k <= j
             IN  <<SubSeq(s, 1, i - 1)>> \o Split(DropFirst(s, i), c)

\* str.isdigit() / str.isalpha(): non-empty and every character of the class
IsDigit(s) == s # <<>> /\ \A i \in DOMAIN s : s[i] \in Digits

IsAlpha(s) == s # <<>> /\ \A i \in DOMAIN s : s[i] \in Letters

IsAlnum(s) == \A i \in DOMAIN s : s[i] \in Letters \cup Digits

DigitValue(c) == (CHOOSE i \in DOMAIN DigitSeq : DigitSeq[i] = c) - 1

\* int(s) for a string of digits
RECURSIVE IntOf(_)
IntOf(s) ==
    IF Len(s) = 0 THEN 0
    ELSE 10 * IntOf(SubSeq(s, 1, Len(s) - 1)) + DigitValue(s[Len(s)])

(***************************************************************************)
(* Console answers read by input()                                         *)
(***************************************************************************)
AnsYes       == <<"y","e","s">>
AnsYesPadded == <<" ","Y","E","S"," ">>
AnsNo        == <<"n","o">>
AnsSkip      == <<"S","k","i","p">>
AnsSkipLower == <<"s","k","i","p">>
AnsY         == <<"y">>

Answers == {AnsYesPadded, AnsNo, AnsSkip, AnsY}

\* read when the call prompts for nothing
NoAnswer == <<"-">>

\* input().strip().lower()
ResponseOf == [a \in Answers \cup {NoAnswer} |-> Lower(Strip(a))]

ReadResponse(a) == ResponseOf[a]

(***************************************************************************)
(* Environments on disk                                                    *)
(***************************************************************************)
DefaultEnv == "venv_ninja_moltbot"

EnvNames == {DefaultEnv, "envA"}

\* env_name argument: a name, or nothing (None / empty string)
NoEnv == ""

\* callers reach the default environment by leaving the name out
EnvArgs == (EnvNames \ {DefaultEnv}) \cup {NoEnv}

PkgDemo  == <<"d","e","m","o">>
PkgSteal == <<"s","t","e","a","l","-","p","w">>

PkgNames == {PkgDemo, PkgSteal}

PkgRequests == <<"R","e","q","u","e","s","t","s">>
PkgBadName  == <<"2","x">>

NoVersion == <<>>
Ver100    == <<"1",".","0",".","0">>
Ver2240   == <<"2",".","2","4",".","0">>
VerOdd    == <<"1",".","0","-","b">>

\* arguments of check_package_safety
CheckerNames == {PkgDemo, PkgSteal, PkgRequests, PkgBadName}

CheckerVersions == {NoVersion, Ver100, Ver2240, VerOdd}


\* one environment directory: dir = the directory exists, py / pip = the
\* interpreter / package-manager executables exist, pkgs = installed packages
AbsentEnv  == [dir |-> FALSE, py |-> FALSE, pip |-> FALSE, pkgs |-> {}]
PartialEnv == [dir |-> TRUE,  py |-> FALSE, pip |-> FALSE, pkgs |-> {}]
FreshEnv   == [dir |-> TRUE,  py |-> TRUE,  pip |-> TRUE,  pkgs |-> {}]
\* the interpreter is in place, the package manager was never installed
NoPipEnv   == [dir |-> TRUE,  py |-> TRUE,  pip |-> FALSE, pkgs |-> {}]

VARIABLES
    fs,      \* EnvNames -> environment directory state
    log,     \* the audit log file: sequence of InstallationRecord lines
    package, \* the package the install / uninstall calls of this run name
    last,    \* the most recent call: operation, arguments, result, steps
    registry,\* the JSON the registry serves for the package being checked
    report,  \* the safety_report of the check_package_safety call
    pc,      \* where that call is: idle, checking, recommend, returned, raised
    world,   \* what the outside world answered during the most recent call
    listing, \* the list the most recent list_environments call returned
    calls    \* the create_environment calls in progress, one per caller

vars == <<fs, log, package, last, registry, report, pc, world, listing, calls>>

\* answer is the console line the call read, NoAnswer when it read none
NoCall == [op |-> "none", env |-> NoEnv, force |-> FALSE, security |-> "none",
           answer |-> NoAnswer, success |-> FALSE, message |-> "",
           trace |-> <<>>]

\* What the most recent call met outside the program; "none" for what it
\* never asked.
\*   env_found  the directory of the environment it was given existed
\*   create     what the creation of the default environment did
\*   registry   the metadata fetch: "found" (200) or "missing"
\*   pip        what the install subprocess did
\*   write      the write of the log line: "ok" or "failed"
\*   version    "pip show" reported a Version: line after the install
NoWorld == [env_found |-> FALSE, create |-> "none", registry |-> "none",
            pip |-> "none", write |-> "none", version |-> FALSE]

\* Two callers may be inside create_environment at the same time (two
\* processes over the same environments directory); a caller is idle, has
\* been called, has passed the existence test, has run the creation step,
\* or is done with a message to return.
Callers == {1, 2}

IdleCall == [pc |-> "idle", env |-> NoEnv, message |-> "", trace |-> <<>>]

NoCalls == [c \in Callers |-> IdleCall]

(***************************************************************************)
(* EnvironmentManager                                                      *)
(***************************************************************************)
\* os.path.exists(env_path)
EnvPathExists(f, e) == f[e].dir

\* os.path.exists(get_python_path(env_name))
PythonExists(f, e) == f[e].py

\* get_environment_info: None when the directory is absent, else the info
\* dictionary, of which the model keeps name and exists
NoInfo == [found |-> FALSE, name |-> "", exists |-> FALSE]

get_environment_info(f, e) ==
    IF ~EnvPathExists(f, e) THEN NoInfo
    ELSE [found |-> TRUE, name |-> e, exists |-> PythonExists(f, e)]

\* Seeded fault: list_environments reports every directory it finds as an
\* environment that exists.
list_environments_dir_means_exists(f) ==
    {[name |-> e, exists |-> TRUE] : e \in {x \in EnvNames : f[x].dir}}

\* list_environments: one entry per directory under envs_path
list_environments(f) ==
    {[name |-> e, exists |-> PythonExists(f, e)] : e \in {x \in EnvNames : f[x].dir}}

\* What the creation step (venv.create / python -m venv) can do:
\*   ok                    directory, interpreter and pip in place
\*   nopy                  returns with no interpreter at the expected path
\*   interp_not_found      no interpreter of the requested version
\*   called_process_error  "python -m venv" exits non-zero, directory made
\*   ensurepip_failed      the pip bootstrap subprocess of the step fails
\*                         (CalledProcessError) after the interpreter is set up
\*   error_nodir           another exception before the directory is made
\*   error_dir             another exception after the directory is made
CreateOutcomes == {"ok", "nopy", "interp_not_found", "called_process_error",
                   "ensurepip_failed", "error_nodir", "error_dir"}

NoPyVersion == ""

\* without a python_version there is no interpreter probe and no subprocess
CreateOutcomesFor(pyver) ==
    IF pyver = NoPyVersion
    THEN {"ok", "nopy", "ensurepip_failed", "error_nodir", "error_dir"}
    ELSE CreateOutcomes

PyVersions == {NoPyVersion, "3.11"}

\* Seeded fault: create_environment without the "already exists"
\* test, so that the creation step runs over the existing directory.
create_environment_no_exists_check(f, e, pyver, oc) ==
    IF pyver # NoPyVersion /\ oc = "interp_not_found"
    THEN [fs |-> f, success |-> FALSE, message |-> "Python not found",
          trace |-> <<"FIND_PYTHON">>]
    ELSE LET pre == IF pyver # NoPyVersion
                    THEN <<"FIND_PYTHON", "VENV_CREATE">>
                    ELSE <<"VENV_CREATE">>
         IN  CASE oc \in {"called_process_error", "error_dir", "error_nodir"} ->
                    [fs |-> [f EXCEPT ![e] = PartialEnv], success |-> FALSE,
                     message |-> "Error creating environment", trace |-> pre]
               [] oc = "ensurepip_failed" ->
                    [fs |-> [f EXCEPT ![e] = NoPipEnv], success |-> FALSE,
                     message |-> "Failed to create environment", trace |-> pre]
               [] oc = "nopy" ->
                    [fs |-> [f EXCEPT ![e] = PartialEnv], success |-> FALSE,
                     message |-> "Failed to create Python executable",
                     trace |-> pre \o <<"VERIFY_CREATION">>]
               [] OTHER ->
                    [fs |-> [f EXCEPT ![e] = FreshEnv], success |-> TRUE,
                     message |-> "created successfully",
                     trace |-> pre \o <<"VERIFY_CREATION", "BOOTSTRAP">>]

\* Seeded fault: create_environment without the test of the interpreter
\* path after the creation step.
create_environment_no_verify(f, e, pyver, oc) ==
    IF EnvPathExists(f, e)
    THEN [fs |-> f, success |-> FALSE, message |-> "already exists",
          trace |-> <<"CHECK_EXISTS">>]
    ELSE IF pyver # NoPyVersion /\ oc = "interp_not_found"
    THEN [fs |-> f, success |-> FALSE, message |-> "Python not found",
          trace |-> <<"CHECK_EXISTS", "FIND_PYTHON">>]
    ELSE LET pre == IF pyver # NoPyVersion
                    THEN <<"CHECK_EXISTS", "FIND_PYTHON", "VENV_CREATE">>
                    ELSE <<"CHECK_EXISTS", "VENV_CREATE">>
         IN  CASE oc = "called_process_error" /\ pyver # NoPyVersion ->
                    [fs |-> [f EXCEPT ![e] = PartialEnv], success |-> FALSE,
                     message |-> "Failed to create environment", trace |-> pre]
               [] oc = "ensurepip_failed" ->
                    [fs |-> [f EXCEPT ![e] = NoPipEnv], success |-> FALSE,
                     message |-> "Failed to create environment", trace |-> pre]
               [] oc = "error_nodir" ->
                    [fs |-> f, success |-> FALSE,
                     message |-> "Error creating environment", trace |-> pre]
               [] oc = "error_dir" ->
                    [fs |-> [f EXCEPT ![e] = PartialEnv], success |-> FALSE,
                     message |-> "Error creating environment", trace |-> pre]
               [] oc = "nopy" ->
                    [fs |-> [f EXCEPT ![e] = PartialEnv], success |-> TRUE,
                     message |-> "created successfully",
                     trace |-> pre \o <<"VERIFY_CREATION", "BOOTSTRAP">>]
               [] OTHER ->
                    [fs |-> [f EXCEPT ![e] = FreshEnv], success |-> TRUE,
                     message |-> "created successfully",
                     trace |-> pre \o <<"VERIFY_CREATION", "BOOTSTRAP">>]

\* Seeded fault: create_environment that deletes what the creation step left
\* behind before it returns a failure.
create_environment_cleans_up(f, e, pyver, oc) ==
    IF EnvPathExists(f, e)
    THEN [fs |-> f, success |-> FALSE, message |-> "already exists",
          trace |-> <<"CHECK_EXISTS">>]
    ELSE IF pyver # NoPyVersion /\ oc = "interp_not_found"
    THEN [fs |-> f, success |-> FALSE, message |-> "Python not found",
          trace |-> <<"CHECK_EXISTS", "FIND_PYTHON">>]
    ELSE LET pre == IF pyver # NoPyVersion
                    THEN <<"CHECK_EXISTS", "FIND_PYTHON", "VENV_CREATE">>
                    ELSE <<"CHECK_EXISTS", "VENV_CREATE">>
         IN  CASE oc = "called_process_error" /\ pyver # NoPyVersion ->
                    [fs |-> f, success |-> FALSE,
                     message |-> "Failed to create environment", trace |-> pre]
               [] oc = "ensurepip_failed" ->
                    [fs |-> f, success |-> FALSE,
                     message |-> "Failed to create environment", trace |-> pre]
               [] oc = "error_nodir" ->
                    [fs |-> f, success |-> FALSE,
                     message |-> "Error creating environment", trace |-> pre]
               [] oc = "error_dir" ->
                    [fs |-> f, success |-> FALSE,
                     message |-> "Error creating environment", trace |-> pre]
               [] oc = "nopy" ->
                    [fs |-> f, success |-> FALSE,
                     message |-> "Failed to create Python executable",
                     trace |-> pre \o <<"VERIFY_CREATION">>]
               [] OTHER ->
                    [fs |-> [f EXCEPT ![e] = FreshEnv], success |-> TRUE,
                     message |-> "created successfully",
                     trace |-> pre \o <<"VERIFY_CREATION", "BOOTSTRAP">>]

\* create_environment(env_name, python_version) on disk state f;
\* oc is what the creation step does.  Returns the new disk state, the
\* (success, message) pair and the steps performed.
create_environment(f, e, pyver, oc) ==
    IF EnvPathExists(f, e)
    THEN [fs |-> f, success |-> FALSE, message |-> "already exists",
          trace |-> <<"CHECK_EXISTS">>]
    ELSE IF pyver # NoPyVersion /\ oc = "interp_not_found"
    THEN [fs |-> f, success |-> FALSE, message |-> "Python not found",
          trace |-> <<"CHECK_EXISTS", "FIND_PYTHON">>]
    ELSE LET pre == IF pyver # NoPyVersion
                    THEN <<"CHECK_EXISTS", "FIND_PYTHON", "VENV_CREATE">>
                    ELSE <<"CHECK_EXISTS", "VENV_CREATE">>
         IN  CASE oc = "called_process_error" /\ pyver # NoPyVersion ->
                    [fs |-> [f EXCEPT ![e] = PartialEnv], success |-> FALSE,
                     message |-> "Failed to create environment", trace |-> pre]
               [] oc = "ensurepip_failed" ->
                    [fs |-> [f EXCEPT ![e] = NoPipEnv], success |-> FALSE,
                     message |-> "Failed to create environment", trace |-> pre]
               [] oc = "error_nodir" ->
                    [fs |-> f, success |-> FALSE,
                     message |-> "Error creating environment", trace |-> pre]
               [] oc = "error_dir" ->
                    [fs |-> [f EXCEPT ![e] = PartialEnv], success |-> FALSE,
                     message |-> "Error creating environment", trace |-> pre]
               [] oc = "nopy" ->
                    [fs |-> [f EXCEPT ![e] = PartialEnv], success |-> FALSE,
                     message |-> "Failed to create Python executable",
                     trace |-> pre \o <<"VERIFY_CREATION">>]
               [] OTHER ->
                    [fs |-> [f EXCEPT ![e] = FreshEnv], success |-> TRUE,
                     message |-> "created successfully",
                     trace |-> pre \o <<"VERIFY_CREATION", "BOOTSTRAP">>]

\* What shutil.rmtree can do
RemoveOutcomes == {"ok", "error_before", "error_partial"}

\* Seeded fault: remove_environment that takes every answer
\* beginning with "y" as the confirmation.
remove_environment_accepts_y(f, e, a, oc) ==
    IF ~EnvPathExists(f, e)
    THEN [fs |-> f, success |-> FALSE, message |-> "does not exist",
          trace |-> <<"CHECK_EXISTS">>]
    ELSE IF ~StartsWith(ReadResponse(a), <<"y">>)
    THEN [fs |-> f, success |-> FALSE,
          message |-> "Environment deletion cancelled",
          trace |-> <<"CHECK_EXISTS", "CONFIRM">>]
    ELSE IF oc = "error_before"
    THEN [fs |-> f, success |-> FALSE,
          message |-> "Error removing environment",
          trace |-> <<"CHECK_EXISTS", "CONFIRM", "RMTREE">>]
    ELSE IF oc = "error_partial"
    THEN [fs |-> [f EXCEPT ![e] = PartialEnv], success |-> FALSE,
          message |-> "Error removing environment",
          trace |-> <<"CHECK_EXISTS", "CONFIRM", "RMTREE">>]
    ELSE [fs |-> [f EXCEPT ![e] = AbsentEnv], success |-> TRUE,
          message |-> "removed successfully",
          trace |-> <<"CHECK_EXISTS", "CONFIRM", "RMTREE">>]

\* remove_environment(env_name); a = the console answer
remove_environment(f, e, a, oc) ==
    IF ~EnvPathExists(f, e)
    THEN [fs |-> f, success |-> FALSE, message |-> "does not exist",
          trace |-> <<"CHECK_EXISTS">>]
    ELSE IF ReadResponse(a) # AnsYes
    THEN [fs |-> f, success |-> FALSE,
          message |-> "Environment deletion cancelled",
          trace |-> <<"CHECK_EXISTS", "CONFIRM">>]
    ELSE IF oc = "error_before"
    THEN [fs |-> f, success |-> FALSE,
          message |-> "Error removing environment",
          trace |-> <<"CHECK_EXISTS", "CONFIRM", "RMTREE">>]
    ELSE IF oc = "error_partial"
    THEN [fs |-> [f EXCEPT ![e] = PartialEnv], success |-> FALSE,
          message |-> "Error removing environment",
          trace |-> <<"CHECK_EXISTS", "CONFIRM", "RMTREE">>]
    ELSE [fs |-> [f EXCEPT ![e] = AbsentEnv], success |-> TRUE,
          message |-> "removed successfully",
          trace |-> <<"CHECK_EXISTS", "CONFIRM", "RMTREE">>]

(***************************************************************************)
(* Registry (PyPI JSON API) answers                                        *)
(***************************************************************************)
\* JSON null / a missing key read with .get(): for a text, for a list of
\* texts and for the project-links mapping
None == <<"None">>

NoneList == <<None>>

NoneLinks == <<[label |-> None, url |-> None]>>

LicMIT     == <<"M","I","T">>
LicUnknown == <<"U","n","k","n","o","w","n">>

AuthorAnn == <<"a","n","n">>

TimeStamp == <<"2","0","2","4","-","0","1","-","0","1","T","0","0",":","0","0",":","0","0">>

\* one entry of the top-level "urls" array
WheelArtifact ==
    [filename |-> <<"d","e","m","o",".","w","h","l">>, packagetype |-> "bdist_wheel",
     size |-> 2048, upload_time |-> None,
     url |-> <<"h","t","t","p","s",":","/","/","f","i","l","e","s",".","p","y","t","h","o","n","h","o","s","t","e","d",".","o","r","g","/","d">>]

ExeArtifact ==
    [filename |-> <<"S","e","t","u","p",".","E","X","E">>, packagetype |-> "bdist_wininst",
     size |-> 209715200, upload_time |-> TimeStamp,
     url |-> <<"h","t","t","p","s",":","/","/","e","v","i","l",".","e","x","a","m","p","l","e","/","s">>]

\* The registry JSON.  info.upload_time: absent ("none"), a timestamp in the
\* fixed format ("valid") or a string strptime rejects ("badformat");
\* upload_days = whole days between it and now.
MetaClean(p) ==
    [name |-> p, version |-> Ver100, summary |-> <<"l","i","b">>,
     description |-> <<>>, author |-> AuthorAnn, license |-> LicMIT,
     upload_time |-> "valid", upload_days |-> 400, downloads |-> 50000,
     urls |-> <<WheelArtifact>>, requires_dist |-> NoneList,
     project_urls |-> <<>>]

MetaFresh(p) == [MetaClean(p) EXCEPT !.upload_days = 3]

MetaDirty(p) ==
    [name |-> p, version |-> None, summary |-> <<"S","p","y"," ","t","o","o","l">>,
     description |-> <<>>, author |-> None, license |-> None,
     upload_time |-> "valid", upload_days |-> 10, downloads |-> 0,
     urls |-> <<WheelArtifact, ExeArtifact>>,
     requires_dist |-> <<<<"s","i","x">>, <<"K","e","y","L","o","g","g","e","r",">","=","1">>>>,
     project_urls |-> NoneLinks]

MetaBadTime(p) ==
    [MetaClean(p) EXCEPT !.upload_time = "badformat", !.summary = None,
                         !.license = LicUnknown,
                         !.project_urls = <<[label |-> <<"S","o","u","r","c","e">>,
                                             url |-> <<"h","t","t","p","s",":","/","/","g","i","t","h","u","b",".","c","o","m","/","d">>]>>]

\* requests.get(...): an exception, a non-200 status, or 200 with JSON
RegError  == [code |-> 0,   meta |-> MetaClean(<<>>)]
RegNon200 == [code |-> 404, meta |-> MetaClean(<<>>)]
Reg200(m) == [code |-> 200, meta |-> m]

RegistryAnswers(p) == {RegError, RegNon200, Reg200(MetaClean(p))}

(***************************************************************************)
(* PackageInstaller                                                        *)
(***************************************************************************)
NoPackageInfo == [found |-> FALSE, name |-> <<>>, version |-> <<>>,
                  author |-> <<>>, license |-> <<>>,
                  upload_time |-> "none", upload_days |-> 0]

\* x or default
OrElse(x, d) == IF x = None \/ x = <<>> THEN d ELSE x

\* Seeded fault: _get_package_info reads the JSON of every answer, whatever
\* its status code.
get_package_info_any_status(reg) ==
    IF reg.code = 0 THEN NoPackageInfo
    ELSE [found |-> TRUE, name |-> reg.meta.name,
          version |-> reg.meta.version,
          author |-> OrElse(reg.meta.author, <<>>),
          license |-> OrElse(reg.meta.license, LicUnknown),
          upload_time |-> reg.meta.upload_time,
          upload_days |-> reg.meta.upload_days]

\* _get_package_info: the info dictionary on a 200 answer, None otherwise
\* (non-200, or any exception while fetching or reading the JSON)
get_package_info(reg) ==
    IF reg.code # 200 THEN NoPackageInfo
    ELSE [found |-> TRUE, name |-> reg.meta.name,
          version |-> reg.meta.version,
          author |-> OrElse(reg.meta.author, <<>>),
          license |-> OrElse(reg.meta.license, LicUnknown),
          upload_time |-> reg.meta.upload_time,
          upload_days |-> reg.meta.upload_days]

\* Seeded fault: _is_package_installed that asks the pip of the
\* default environment instead of the pip of the environment it is given.
is_package_installed_default_env(f, p, e) ==
    f[DefaultEnv].pip /\ p \in f[DefaultEnv].pkgs

\* _is_package_installed: "pip show" exits 0; any exception (no pip
\* executable) counts as not installed
is_package_installed(f, p, e) == f[e].pip /\ p \in f[e].pkgs

SuspiciousKeywords ==
    {<<"h","a","c","k">>, <<"c","r","a","c","k">>, <<"s","t","e","a","l">>,
     <<"f","a","k","e">>, <<"m","a","l","w","a","r","e">>,
     <<"v","i","r","u","s">>}

\* any(keyword in package_name.lower() for keyword in [...])
HasSuspiciousKeyword ==
    [p \in PkgNames |-> \E k \in SuspiciousKeywords : Contains(Lower(p), k)]

\* _check_package_security: the informational check printed at the gate
check_package_security(p, reg) ==
    LET info == get_package_info(reg)
        mit  == IF Contains(info.license, LicMIT) THEN {"MIT License"} ELSE {}
        susp == HasSuspiciousKeyword[p]
        young == IF info.upload_time = "valid" /\ info.upload_days < 30
                 THEN {"created recently"} ELSE {}
    IN  IF ~info.found
        THEN [status |-> "Safe", warnings |-> {}]
        ELSE IF info.upload_time = "badformat"
        THEN [status |-> "Check failed",
              warnings |-> mit \cup (IF susp THEN {"suspicious keywords"} ELSE {})
                           \cup {"Could not verify security"}]
        ELSE [status |-> IF susp THEN "Suspicious name" ELSE "Safe",
              warnings |-> mit \cup (IF susp THEN {"suspicious keywords"} ELSE {})
                           \cup young]

\* registry answers to the fetch of the security check, one for each
\* status the check can print
SecurityFetches ==
    [p \in PkgNames |->
        {CHOOSE r \in RegistryAnswers(p) : check_package_security(p, r).status = st :
            st \in {check_package_security(p, r).status : r \in RegistryAnswers(p)}}]

\* _log_installation: one line appended to the log file; an error while
\* writing is ignored.  The environment field is the fixed default name.
LogEntry(info, success, error) ==
    [package |-> [name |-> info.name, version |-> info.version,
                  license |-> info.license, author |-> info.author],
     success |-> success, error |-> error, environment |-> DefaultEnv]

\* Seeded fault: _log_installation that opens the log file for
\* writing instead of appending, so each record replaces the earlier ones.
log_installation_truncating(lg, info, success, error, writeOk) ==
    IF writeOk THEN <<LogEntry(info, success, error)>> ELSE lg

log_installation(lg, info, success, error, writeOk) ==
    IF writeOk THEN Append(lg, LogEntry(info, success, error)) ELSE lg

\* What the "pip install" subprocess can do
PipOutcomes == {"exit0", "nonzero", "timeout", "error"}

\* Seeded fault: the return code of the subprocess is not looked at, a
\* subprocess that ran to its end counts as an installation.
perform_installation_ignores_returncode(f, lg, p, e, info, tr, sec, pipOc, writeOk, verOk) ==
    LET oc  == IF f[e].pip THEN pipOc ELSE "error"
        tr1 == tr \o <<"INSTALL_SUBPROCESS",
                        IF writeOk THEN "LOG" ELSE "LOG_WRITE_FAILED">>
    IN  CASE oc \in {"exit0", "nonzero"} ->
               [fs |-> IF oc = "exit0" THEN [f EXCEPT ![e].pkgs = @ \cup {p}] ELSE f,
                log |-> log_installation(lg, info, TRUE, "", writeOk),
                success |-> TRUE,
                message |-> IF verOk /\ oc = "exit0"
                            THEN "successfully installed (version)"
                            ELSE "successfully installed",
                trace |-> tr1 \o <<"VERIFY">>, security |-> sec]
          [] oc = "timeout" ->
               [fs |-> f,
                log |-> log_installation(lg, info, FALSE, "Installation timeout", writeOk),
                success |-> FALSE, message |-> "Installation timeout",
                trace |-> tr1, security |-> sec]
          [] OTHER ->
               [fs |-> f,
                log |-> log_installation(lg, info, FALSE, "Installation error", writeOk),
                success |-> FALSE, message |-> "Installation error",
                trace |-> tr1, security |-> sec]

\* Seeded fault: _log_installation does not catch the error of a failed
\* write, which then ends the call in the "except Exception" branch.
perform_installation_log_raises(f, lg, p, e, info, tr, sec, pipOc, writeOk, verOk) ==
    LET oc  == IF f[e].pip THEN pipOc ELSE "error"
        tr1 == tr \o <<"INSTALL_SUBPROCESS",
                        IF writeOk THEN "LOG" ELSE "LOG_WRITE_FAILED">>
    IN  IF ~writeOk
        THEN [fs |-> IF oc = "exit0" THEN [f EXCEPT ![e].pkgs = @ \cup {p}] ELSE f,
              log |-> lg, success |-> FALSE, message |-> "Installation error",
              trace |-> tr1, security |-> sec]
        ELSE CASE oc = "exit0" ->
               [fs |-> [f EXCEPT ![e].pkgs = @ \cup {p}],
                log |-> log_installation(lg, info, TRUE, "", writeOk),
                success |-> TRUE,
                message |-> IF verOk THEN "successfully installed (version)"
                                     ELSE "successfully installed",
                trace |-> tr1 \o <<"VERIFY">>, security |-> sec]
          [] oc = "nonzero" ->
               [fs |-> f,
                log |-> log_installation(lg, info, FALSE, "stderr", writeOk),
                success |-> FALSE, message |-> "Installation failed",
                trace |-> tr1, security |-> sec]
          [] oc = "timeout" ->
               [fs |-> f,
                log |-> log_installation(lg, info, FALSE, "Installation timeout", writeOk),
                success |-> FALSE, message |-> "Installation timeout",
                trace |-> tr1, security |-> sec]
          [] OTHER ->
               [fs |-> f,
                log |-> log_installation(lg, info, FALSE, "Installation error", writeOk),
                success |-> FALSE, message |-> "Installation error",
                trace |-> tr1, security |-> sec]

\* Seeded fault: an installation whose version cannot be read back
\* afterwards is returned as a failure.
perform_installation_verify_fatal(f, lg, p, e, info, tr, sec, pipOc, writeOk, verOk) ==
    LET oc  == IF f[e].pip THEN pipOc ELSE "error"
        tr1 == tr \o <<"INSTALL_SUBPROCESS",
                        IF writeOk THEN "LOG" ELSE "LOG_WRITE_FAILED">>
    IN  CASE oc = "exit0" ->
               [fs |-> [f EXCEPT ![e].pkgs = @ \cup {p}],
                log |-> log_installation(lg, info, TRUE, "", writeOk),
                success |-> verOk,
                message |-> IF verOk THEN "successfully installed (version)"
                                     ELSE "Installation error",
                trace |-> tr1 \o <<"VERIFY">>, security |-> sec]
          [] oc = "nonzero" ->
               [fs |-> f,
                log |-> log_installation(lg, info, FALSE, "stderr", writeOk),
                success |-> FALSE, message |-> "Installation failed",
                trace |-> tr1, security |-> sec]
          [] oc = "timeout" ->
               [fs |-> f,
                log |-> log_installation(lg, info, FALSE, "Installation timeout", writeOk),
                success |-> FALSE, message |-> "Installation timeout",
                trace |-> tr1, security |-> sec]
          [] OTHER ->
               [fs |-> f,
                log |-> log_installation(lg, info, FALSE, "Installation error", writeOk),
                success |-> FALSE, message |-> "Installation error",
                trace |-> tr1, security |-> sec]

\* The part of install_package from "Perform installation" on: the
\* subprocess, the log entry and the post-install version query.
\*   pipOc   what the subprocess does (no pip executable: the call raises)
\*   writeOk whether the log line can be written (a failed write is
\*           ignored by _log_installation and noted in the steps)
\*   verOk   whether "pip show" reports a Version: line afterwards
perform_installation(f, lg, p, e, info, tr, sec, pipOc, writeOk, verOk) ==
    LET oc  == IF f[e].pip THEN pipOc ELSE "error"
        tr1 == tr \o <<"INSTALL_SUBPROCESS",
                        IF writeOk THEN "LOG" ELSE "LOG_WRITE_FAILED">>
    IN  CASE oc = "exit0" ->
               [fs |-> [f EXCEPT ![e].pkgs = @ \cup {p}],
                log |-> log_installation(lg, info, TRUE, "", writeOk),
                success |-> TRUE,
                message |-> IF verOk THEN "successfully installed (version)"
                                     ELSE "successfully installed",
                trace |-> tr1 \o <<"VERIFY">>, security |-> sec]
          [] oc = "nonzero" ->
               [fs |-> f,
                log |-> log_installation(lg, info, FALSE, "stderr", writeOk),
                success |-> FALSE, message |-> "Installation failed",
                trace |-> tr1, security |-> sec]
          [] oc = "timeout" ->
               [fs |-> f,
                log |-> log_installation(lg, info, FALSE, "Installation timeout", writeOk),
                success |-> FALSE, message |-> "Installation timeout",
                trace |-> tr1, security |-> sec]
          [] OTHER ->
               [fs |-> f,
                log |-> log_installation(lg, info, FALSE, "Installation error", writeOk),
                success |-> FALSE, message |-> "Installation error",
                trace |-> tr1, security |-> sec]

\* Seeded fault: the approval gate compares the answer as typed,
\* without strip() and lower().
install_in_env_raw_answer(f, lg, p, e, force, tr, reg1, reg2, a, pipOc, writeOk, verOk) ==
    LET tr1  == IF force THEN tr ELSE tr \o <<"CHECK_ALREADY_INSTALLED">>
        info == get_package_info(reg1)
        tr2  == tr1 \o <<"FETCH_METADATA">>
        tr3  == IF force THEN tr2
                ELSE tr2 \o <<"SECURITY_CHECK", "APPROVAL_GATE">>
        sec  == IF force THEN "none" ELSE check_package_security(p, reg2).status
    IN  IF ~force /\ is_package_installed(f, p, e)
        THEN [fs |-> f, log |-> lg, success |-> TRUE,
              message |-> "already installed", trace |-> tr1,
              security |-> "none"]
        ELSE IF ~info.found
        THEN [fs |-> f, log |-> lg, success |-> FALSE,
              message |-> "not found in PyPI", trace |-> tr2,
              security |-> "none"]
        ELSE IF ~force /\ a = AnsSkipLower
        THEN [fs |-> f, log |-> lg, success |-> TRUE,
              message |-> "Installation skipped by user", trace |-> tr3,
              security |-> sec]
        ELSE IF ~force /\ a # AnsYes
        THEN [fs |-> f, log |-> lg, success |-> FALSE,
              message |-> "Installation cancelled by user", trace |-> tr3,
              security |-> sec]
        ELSE perform_installation(f, lg, p, e, info, tr3, sec,
                                  pipOc, writeOk, verOk)

\* install_package from "Check if package is already installed" on, for the
\* resolved environment e on disk state f.
\*   reg1  registry answer to the metadata fetch
\*   reg2  registry answer to the fetch of the security check at the prompt
\*   a     console answer at the approval prompt
install_in_env(f, lg, p, e, force, tr, reg1, reg2, a, pipOc, writeOk, verOk) ==
    LET tr1  == IF force THEN tr ELSE tr \o <<"CHECK_ALREADY_INSTALLED">>
        info == get_package_info(reg1)
        tr2  == tr1 \o <<"FETCH_METADATA">>
        tr3  == IF force THEN tr2
                ELSE tr2 \o <<"SECURITY_CHECK", "APPROVAL_GATE">>
        sec  == IF force THEN "none" ELSE check_package_security(p, reg2).status
        resp == ReadResponse(a)
    IN  IF ~force /\ is_package_installed(f, p, e)
        THEN [fs |-> f, log |-> lg, success |-> TRUE,
              message |-> "already installed", trace |-> tr1,
              security |-> "none"]
        ELSE IF ~info.found
        THEN [fs |-> f, log |-> lg, success |-> FALSE,
              message |-> "not found in PyPI", trace |-> tr2,
              security |-> "none"]
        ELSE IF ~force /\ resp = AnsSkipLower
        THEN [fs |-> f, log |-> lg, success |-> TRUE,
              message |-> "Installation skipped by user", trace |-> tr3,
              security |-> sec]
        ELSE IF ~force /\ resp # AnsYes
        THEN [fs |-> f, log |-> lg, success |-> FALSE,
              message |-> "Installation cancelled by user", trace |-> tr3,
              security |-> sec]
        ELSE perform_installation(f, lg, p, e, info, tr3, sec,
                                  pipOc, writeOk, verOk)

\* Seeded fault: a named environment that does not exist is created, as the
\* default one is.
install_package_creates_named(f, lg, p, envArg, force, createOc, reg1, reg2, a, pipOc, writeOk, verOk) ==
    LET e == IF envArg # NoEnv THEN envArg ELSE DefaultEnv
    IN  IF get_environment_info(f, e).found
        THEN install_in_env(f, lg, p, e, force, <<"RESOLVE_ENV">>,
                            reg1, reg2, a, pipOc, writeOk, verOk)
        ELSE LET cr == create_environment(f, e, NoPyVersion, createOc)
             IN  IF ~cr.success
                 THEN [fs |-> cr.fs, log |-> lg, success |-> FALSE,
                       message |-> cr.message,
                       trace |-> <<"RESOLVE_ENV">> \o cr.trace,
                       security |-> "none"]
                 ELSE install_in_env(cr.fs, lg, p, e, force,
                                     <<"RESOLVE_ENV">> \o cr.trace,
                                     reg1, reg2, a, pipOc, writeOk, verOk)

\* install_package(package_name, version, env_name, force); the version only
\* enters the command line and the printed details
\*   createOc  what the creation of the default environment does, if needed
install_package(f, lg, p, envArg, force, createOc, reg1, reg2, a, pipOc, writeOk, verOk) ==
    IF envArg # NoEnv
    THEN IF ~get_environment_info(f, envArg).found
         THEN [fs |-> f, log |-> lg, success |-> FALSE,
               message |-> "Environment not found",
               trace |-> <<"RESOLVE_ENV">>, security |-> "none"]
         ELSE install_in_env(f, lg, p, envArg, force, <<"RESOLVE_ENV">>,
                             reg1, reg2, a, pipOc, writeOk, verOk)
    ELSE IF get_environment_info(f, DefaultEnv).found
         THEN install_in_env(f, lg, p, DefaultEnv, force, <<"RESOLVE_ENV">>,
                             reg1, reg2, a, pipOc, writeOk, verOk)
         ELSE LET cr == create_environment(f, DefaultEnv, NoPyVersion, createOc)
              IN  IF ~cr.success
                  THEN [fs |-> cr.fs, log |-> lg, success |-> FALSE,
                        message |-> cr.message,
                        trace |-> <<"RESOLVE_ENV">> \o cr.trace,
                        security |-> "none"]
                  ELSE install_in_env(cr.fs, lg, p, DefaultEnv, force,
                                      <<"RESOLVE_ENV">> \o cr.trace,
                                      reg1, reg2, a, pipOc, writeOk, verOk)

\* What the "pip uninstall -y" subprocess can do
UninstallOutcomes == {"exit0", "nonzero"}

\* uninstall_package(package_name, env_name)
uninstall_package(f, p, envArg, a, oc) ==
    LET e == IF envArg # NoEnv THEN envArg ELSE DefaultEnv
    IN  IF envArg # NoEnv /\ ~get_environment_info(f, envArg).found
        THEN [fs |-> f, success |-> FALSE, message |-> "Environment not found",
              trace |-> <<"RESOLVE_ENV">>]
        ELSE IF ReadResponse(a) # AnsYes
        THEN [fs |-> f, success |-> TRUE,
              message |-> "Uninstallation cancelled by user",
              trace |-> <<"RESOLVE_ENV", "CONFIRM">>]
        ELSE IF ~f[e].pip
        THEN [fs |-> f, success |-> FALSE, message |-> "Uninstallation error",
              trace |-> <<"RESOLVE_ENV", "CONFIRM", "UNINSTALL_SUBPROCESS">>]
        ELSE IF oc = "exit0"
        THEN [fs |-> [f EXCEPT ![e].pkgs = @ \ {p}], success |-> TRUE,
              message |-> "uninstalled successfully",
              trace |-> <<"RESOLVE_ENV", "CONFIRM", "UNINSTALL_SUBPROCESS">>]
        ELSE [fs |-> f, success |-> FALSE, message |-> "Uninstallation failed",
              trace |-> <<"RESOLVE_ENV", "CONFIRM", "UNINSTALL_SUBPROCESS">>]

(***************************************************************************)
(* SecurityChecker                                                         *)
(***************************************************************************)
\* self.malicious_patterns (the list literal is closed as a list)
MaliciousPatterns ==
    <<<<"h","a","c","k">>,
      <<"c","r","a","c","k">>,
      <<"s","t","e","a","l">>,
      <<"p","a","s","s","w","o","r","d">>,
      <<"k","e","y","l","o","g">>,
      <<"s","p","y">>,
      <<"t","r","o","j","a","n">>,
      <<"m","a","l","w","a","r","e">>,
      <<"v","i","r","u","s">>,
      <<"b","a","c","k","d","o","o","r">>,
      <<"r","o","o","t","k","i","t">>>>

\* self.suspicious_extensions
SuspiciousExtensions ==
    <<<<".","e","x","e">>, <<".","d","l","l">>, <<".","s","o">>, <<".","d","y","l","i","b">>, <<".","a","p","p">>, <<".","s","c","r">>, <<".","b","a","t">>, <<".","c","m","d">>, <<".","p","s","1">>>>

PassResult == [status |-> "PASS", issues |-> <<>>, warnings |-> <<>>]

\* a check that ends by raising instead of returning a result
RaisedResult == [status |-> "RAISED", issues |-> <<>>, warnings |-> <<>>]

FailWith(issues) == [status |-> "FAIL", issues |-> issues, warnings |-> <<>>]

\* one list entry per matching element
Hits(matching, text) ==
    [i \in 1..Len(matching) |-> text]

\* re.match(r'^[a-zA-Z][a-zA-Z0-9_-]*$', name)
NameFormatOk(name) ==
    /\ Len(name) >= 1
    /\ name[1] \in Letters
    /\ \A i \in DOMAIN name : name[i] \in Letters \cup Digits \cup {"_", "-"}

\* re.match(r'^\d+\.\d+\.\d+([a-zA-Z0-9]+)?$', version)
SemverLike(v) ==
    LET parts == Split(v, ".")
    IN  /\ Len(parts) = 3
        /\ IsDigit(parts[1])
        /\ IsDigit(parts[2])
        /\ parts[3] # <<>>
        /\ parts[3][1] \in Digits
        /\ IsAlnum(parts[3])

VersionPrefixes ==
    {<<"=","=">>, <<"!","=">>, <<"<","=">>, <<">","=">>, <<"~","=">>, <<"=","=","=">>}

\* _is_valid_version
is_valid_version(version) ==
    LET v     == IF \E q \in VersionPrefixes : StartsWith(version, q)
                 THEN DropFirst(version, 2) ELSE version
        parts == Split(v, ".")
    IN  \/ SemverLike(v)
        \/ \A i \in DOMAIN parts : IsDigit(parts[i]) \/ IsAlpha(parts[i])

\* _basic_validation; the result dictionary has no "warnings" key, so the
\* append for an unusual version raises KeyError
basic_validation(name, version) ==
    LET bad    == IF NameFormatOk(name) THEN <<>>
                  ELSE <<"Package name contains invalid characters">>
        hits   == Hits(SelectSeq(MaliciousPatterns,
                       LAMBDA pat : Contains(Lower(name), pat)),
                       "Package name matches suspicious pattern")
        issues == bad \o hits
    IN  IF version # <<>> /\ ~is_valid_version(version)
        THEN RaisedResult
        ELSE [status |-> IF issues = <<>> THEN "PASS" ELSE "FAIL",
              issues |-> issues, warnings |-> <<>>]

\* truth value of a text that may be None
Truthy(x) == x # None /\ x # <<>>

\* _check_package_metadata
check_package_metadata(reg) ==
    IF reg.code = 0 THEN FailWith(<<"Failed to retrieve metadata">>)
    ELSE IF reg.code # 200 THEN FailWith(<<"Package not found in PyPI">>)
    ELSE
      LET m      == reg.meta
          noname == IF Truthy(m.name) THEN <<>>
                    ELSE <<"Package has no name in metadata">>
          nover  == IF Truthy(m.version) THEN <<>>
                    ELSE <<"Package has no version in metadata">>
          issues == noname \o nover
      IN  IF m.summary = None \/ m.description = None
          THEN FailWith(issues \o <<"Failed to retrieve metadata">>)
          ELSE
            LET kw  == Hits(SelectSeq(MaliciousPatterns,
                            LAMBDA pat : \/ Contains(Lower(m.summary), pat)
                                         \/ Contains(Lower(m.description), pat)),
                            "Suspicious keyword in metadata")
                au  == IF ~Truthy(m.author) \/ m.author = LicUnknown
                       THEN <<"Missing or unknown author information">>
                       ELSE <<>>
                lic == IF ~Truthy(m.license)
                       THEN <<"No license information available">>
                       ELSE IF Contains(Lower(m.license), Lower(LicUnknown))
                       THEN <<"License marked as unknown">>
                       ELSE <<>>
            IN  [status |-> IF issues = <<>> THEN "PASS" ELSE "FAIL",
                 issues |-> issues, warnings |-> kw \o au \o lic]

\* urlparse(x).netloc.lower() for the values the code passes in: the text
\* between "scheme://" and the next "/"; empty when there is no "//"
\* (urlparse(None) gives the empty bytes netloc)
Netloc(x) ==
    IF x = None THEN <<>>
    ELSE LET colon == {i \in DOMAIN x : x[i] = ":"}
         IN  IF colon = {} THEN <<>>
             ELSE LET c == CHOOSE k \in colon : \A j \in colon : k <= j
                      rest == DropFirst(x, c)
                  IN  IF c > 1 /\ x[1] \in Letters /\ StartsWith(rest, <<"/", "/">>)
                      THEN Lower(Split(DropFirst(rest, 2), "/")[1])
                      ELSE <<>>

TrustedDomains ==
    {<<"p","y","p","i",".","o","r","g">>,
     <<"f","i","l","e","s",".","p","y","t","h","o","n","h","o","s","t","e","d",".","o","r","g">>}

\* 100 * 1024 * 1024
LargeFileBytes == 104857600

\* _check_download_urls; the URL it parses is the entry's "upload_time"
check_download_urls(reg) ==
    IF reg.code = 0 THEN FailWith(<<"Failed to check download URLs">>)
    ELSE IF reg.code # 200 THEN PassResult
    ELSE
      LET urls == reg.meta.urls
          sus  == SelectSeq(urls, LAMBDA u : Netloc(u.upload_time) \notin TrustedDomains)
          RECURSIVE Warn(_)
          Warn(us) ==
              IF us = <<>> THEN <<>>
              ELSE (IF Netloc(Head(us).upload_time) \notin TrustedDomains
                    THEN <<"Untrusted domain">> ELSE <<>>)
                   \o (IF Head(us).size > LargeFileBytes
                       THEN <<"Large package size">> ELSE <<>>)
                   \o Warn(Tail(us))
      IN  [status |-> IF sus # <<>> THEN "WARNING" ELSE "PASS",
           issues |-> <<>>, warnings |-> Warn(urls)]

\* _check_file_types
check_file_types(reg) ==
    IF reg.code = 0 THEN FailWith(<<"Failed to check file types">>)
    ELSE IF reg.code # 200 THEN PassResult
    ELSE
      LET urls == reg.meta.urls
          RECURSIVE Warn(_)
          Warn(us) ==
              IF us = <<>> THEN <<>>
              ELSE Hits(SelectSeq(SuspiciousExtensions,
                        LAMBDA ext : EndsWith(Lower(Head(us).filename), ext)),
                        "Suspicious file extension")
                   \o Warn(Tail(us))
      IN  [status |-> IF Warn(urls) # <<>> THEN "WARNING" ELSE "PASS",
           issues |-> <<>>, warnings |-> Warn(urls)]

\* _check_dependencies
check_dependencies(reg) ==
    IF reg.code = 0 THEN FailWith(<<"Failed to check dependencies">>)
    ELSE IF reg.code # 200 THEN PassResult
    ELSE IF reg.meta.requires_dist \in {NoneList, <<>>} THEN PassResult
    ELSE
      LET sus == Hits(SelectSeq(reg.meta.requires_dist,
                      LAMBDA dep : \E k \in DOMAIN MaliciousPatterns :
                                      Contains(Lower(dep), MaliciousPatterns[k])),
                      "Suspicious dependency")
      IN  [status |-> IF sus # <<>> THEN "WARNING" ELSE "PASS",
           issues |-> <<>>, warnings |-> sus]

\* _check_package_age_and_popularity
check_package_age_and_popularity(reg) ==
    IF reg.code = 0 THEN FailWith(<<"Failed to check age and popularity">>)
    ELSE IF reg.code # 200 THEN PassResult
    ELSE
      LET m   == reg.meta
          age == IF m.upload_time = "valid" /\ m.upload_days < 7
                 THEN <<"Package created less than 7 days ago">>
                 ELSE IF m.upload_time = "valid" /\ m.upload_days < 30
                 THEN <<"Package created less than 30 days ago">>
                 ELSE <<>>
          dl  == IF m.downloads = 0 THEN <<"Package has no downloads">>
                 ELSE IF m.downloads < 100
                 THEN <<"Package has very few downloads">>
                 ELSE <<>>
      IN  IF m.upload_time = "badformat"
          THEN FailWith(<<"Failed to check age and popularity">>)
          ELSE [status |-> IF m.upload_time = "valid" /\ m.upload_days < 7
                           THEN "WARNING" ELSE "PASS",
                issues |-> <<>>, warnings |-> age \o dl]

\* the static table of _check_known_vulnerabilities
VulnerablePackages ==
    {[package |-> <<"r","e","q","u","e","s","t","s">>, threshold |-> <<"<","2",".","2","5",".","0">>],
     [package |-> <<"d","j","a","n","g","o">>, threshold |-> <<"<","3",".","2",".","0">>],
     [package |-> <<"f","l","a","s","k">>, threshold |-> <<"<","2",".","0",".","0">>],
     [package |-> <<"s","q","l","a","l","c","h","e","m","y">>, threshold |-> <<"<","1",".","4",".","0">>]}

\* _is_version_older: int() of every dot-separated part of both strings; any
\* part that is not a number raises and the answer is False
is_version_older(version, threshold) ==
    LET vp == Split(version, ".")
        tp == Split(threshold, ".")
        n  == IF Len(vp) < Len(tp) THEN Len(vp) ELSE Len(tp)
        differ == {i \in 1..n : IntOf(vp[i]) # IntOf(tp[i])}
    IN  IF \/ \E i \in DOMAIN vp : ~IsDigit(vp[i])
           \/ \E i \in DOMAIN tp : ~IsDigit(tp[i])
        THEN FALSE
        ELSE IF differ # {}
        THEN LET d == CHOOSE i \in differ : \A j \in differ : i <= j
             IN  IntOf(vp[d]) < IntOf(tp[d])
        ELSE Len(vp) < Len(tp)

\* _check_known_vulnerabilities
check_known_vulnerabilities(name, version) ==
    IF \E row \in VulnerablePackages :
          /\ row.package = Lower(name)
          /\ version # <<>>
          /\ is_version_older(version, row.threshold)
    THEN FailWith(<<"Package has known vulnerabilities in this version">>)
    ELSE PassResult

\* _check_license
check_license(reg) ==
    IF reg.code = 0 THEN FailWith(<<"Failed to check license">>)
    ELSE IF reg.code # 200 THEN PassResult
    ELSE IF reg.meta.license = None THEN FailWith(<<"Failed to check license">>)
    ELSE [status |-> "PASS", issues |-> <<>>,
          warnings |-> IF Contains(Lower(reg.meta.license), Lower(LicUnknown))
                       THEN <<"License marked as unknown">> ELSE <<>>]

\* _check_source_code_integrity
check_source_code_integrity(reg) ==
    IF reg.code = 0 THEN FailWith(<<"Failed to check source code">>)
    ELSE IF reg.code # 200 THEN PassResult
    ELSE IF reg.meta.project_urls = NoneLinks
    THEN FailWith(<<"Failed to check source code">>)
    ELSE
      LET pu == reg.meta.project_urls
          has == \E i \in DOMAIN pu :
                    \/ Contains(Lower(pu[i].label), <<"s","o","u","r","c","e">>)
                    \/ Contains(Lower(pu[i].url), <<"g","i","t","h","u","b">>)
      IN  [status |-> "PASS", issues |-> <<>>,
           warnings |-> IF has THEN <<>>
                        ELSE <<"Source code URL not available">>]

\* the checks in the order check_package_safety runs them
CheckNames ==
    <<"basic_validation", "metadata", "download_urls", "file_types",
      "dependencies", "age_popularity", "vulnerabilities", "license",
      "source_code">>

\* the result of check number k
RunCheck(k, name, version, reg) ==
    CASE k = 1 -> basic_validation(name, version)
      [] k = 2 -> check_package_metadata(reg)
      [] k = 3 -> check_download_urls(reg)
      [] k = 4 -> check_file_types(reg)
      [] k = 5 -> check_dependencies(reg)
      [] k = 6 -> check_package_age_and_popularity(reg)
      [] k = 7 -> check_known_vulnerabilities(name, version)
      [] k = 8 -> check_license(reg)
      [] OTHER -> check_source_code_integrity(reg)

\* checks that fetch from the registry
Fetches(k) == k \notin {1, 7}

\* the safety_report dictionary as check_package_safety first builds it
NewReport(name, version) ==
    [package |-> name, version |-> version, overall_status |-> "SAFE",
     checks |-> <<>>, recommendations |-> <<>>, critical_issues |-> <<>>,
     warnings |-> <<>>, score |-> 100]

\* Seeded fault: _update_score that subtracts 5 for a WARNING.
update_score_warning_five(rep, res) ==
    IF res.status = "FAIL"
    THEN [rep EXCEPT !.score = @ - 20,
                     !.critical_issues = @ \o res.issues]
    ELSE IF res.status = "WARNING"
    THEN [rep EXCEPT !.score = @ - 5,
                     !.warnings = @ \o res.warnings]
    ELSE rep

\* Seeded fault: _update_score that subtracts for FAIL only.
update_score_fail_only(rep, res) ==
    IF res.status = "FAIL"
    THEN [rep EXCEPT !.score = @ - 20,
                     !.critical_issues = @ \o res.issues]
    ELSE IF res.status = "WARNING"
    THEN [rep EXCEPT !.warnings = @ \o res.warnings]
    ELSE rep

\* _update_score
update_score(rep, res) ==
    IF res.status = "FAIL"
    THEN [rep EXCEPT !.score = @ - 20,
                     !.critical_issues = @ \o res.issues]
    ELSE IF res.status = "WARNING"
    THEN [rep EXCEPT !.score = @ - 10,
                     !.warnings = @ \o res.warnings]
    ELSE rep

\* safety_report["checks"][name] = result; self._update_score(...)
RecordCheck(rep, k, res) ==
    update_score([rep EXCEPT !.checks = Append(@, [name |-> CheckNames[k],
                                                   status |-> res.status,
                                                   issues |-> res.issues,
                                                   warnings |-> res.warnings])],
                 res)

\* Seeded fault: the except branch records the failure but leaves
\* overall_status as it was.
CheckFailed_keeps_status(rep) ==
    [rep EXCEPT !.critical_issues = Append(@, "Security check failed")]

\* the except branch of check_package_safety
CheckFailed(rep) ==
    [rep EXCEPT !.overall_status = "CHECK_FAILED",
                !.critical_issues = Append(@, "Security check failed")]

\* "suspicious" in warning.lower(), for the warning texts the checks produce
MentionsSuspicious(w) ==
    w \in {"Suspicious file extension", "Suspicious dependency",
           "Suspicious keyword in metadata"}

\* _generate_recommendations; the WARNING branch names an undefined
\* variable and raises NameError
generate_recommendations(rep) ==
    IF rep.overall_status = "FAIL"
    THEN [raised |-> FALSE,
          report |-> [rep EXCEPT !.recommendations = Append(@, "DO NOT INSTALL")]]
    ELSE IF rep.overall_status = "WARNING"
    THEN [raised |-> TRUE, report |-> rep]
    ELSE
      LET caution == IF rep.score < 80 THEN <<"Exercise caution">> ELSE <<>>
          review  == IF \E i \in DOMAIN rep.warnings : MentionsSuspicious(rep.warnings[i])
                     THEN <<"Strongly recommend manual review of source code">>
                     ELSE <<>>
      IN  [raised |-> FALSE,
           report |-> [rep EXCEPT !.recommendations = @ \o caution \o review]]

(***************************************************************************)
(* The calls a caller can make                                             *)
(***************************************************************************)
\* The environments directory may already hold environments when the
\* managers are constructed.  One run of the model follows the calls made
\* for one package.
Init ==
    /\ fs \in [EnvNames -> {AbsentEnv, PartialEnv, FreshEnv}]
    /\ log = <<>>
    /\ package \in PkgNames
    /\ last = NoCall
    /\ registry = MetaClean(PkgDemo)
    /\ report = NewReport(PkgDemo, NoVersion)
    /\ pc = "idle"
    /\ world = NoWorld
    /\ listing = {}
    /\ calls = NoCalls

checkerVars == <<registry, report, pc>>

installerVars == <<fs, log, package, last, world, listing, calls>>

Has(tr, step) == \E i \in DOMAIN tr : tr[i] = step

Call(op, envArg, force, a, sec, r) ==
    [op |-> op, env |-> envArg, force |-> force, security |-> sec,
     answer |-> IF Has(r.trace, "CONFIRM") \/ Has(r.trace, "APPROVAL_GATE")
                THEN a ELSE NoAnswer,
     success |-> r.success, message |-> r.message, trace |-> r.trace]

Create ==
    \E e \in EnvNames, pyver \in PyVersions :
      \E oc \in CreateOutcomesFor(pyver) :
      \E r \in {create_environment(fs, e, pyver, oc)} :
            /\ fs' = r.fs
            /\ last' = Call("create", e, FALSE, NoAnswer, "none", r)
            /\ world' = [NoWorld EXCEPT !.create = IF Has(r.trace, "VENV_CREATE")
                                                   THEN oc ELSE "none"]
            /\ UNCHANGED <<log, package, listing, calls, checkerVars>>

Remove ==
    \E e \in EnvNames, a \in Answers, oc \in RemoveOutcomes :
      \E r \in {remove_environment(fs, e, a, oc)} :
            /\ fs' = r.fs
            /\ last' = Call("remove", e, FALSE, a, "none", r)
            /\ world' = NoWorld
            /\ UNCHANGED <<log, package, listing, calls, checkerVars>>

Info ==
    \E e \in EnvNames :
        LET r == get_environment_info(fs, e)
        IN  /\ last' = Call("info", e, FALSE, NoAnswer, "none",
                            [success |-> r.found,
                             message |-> IF ~r.found THEN "not found"
                                         ELSE IF r.exists THEN "exists=true"
                                         ELSE "exists=false",
                             trace |-> <<>>])
            /\ world' = NoWorld
            /\ UNCHANGED <<fs, log, package, listing, calls, checkerVars>>

List ==
    /\ listing' = list_environments(fs)
    /\ last' = Call("list", NoEnv, FALSE, NoAnswer, "none",
                    [success |-> TRUE, message |-> "", trace |-> <<>>])
    /\ world' = NoWorld
    /\ UNCHANGED <<fs, log, package, calls, checkerVars>>

\* what the install_package call with result r met, of the answers it was
\* given
Met(f, envArg, createOc, reg1, pipOc, writeOk, verOk, r) ==
    LET e   == IF envArg = NoEnv THEN DefaultEnv ELSE envArg
        ran == Has(r.trace, "INSTALL_SUBPROCESS")
        oc  == IF r.fs[e].pip THEN pipOc ELSE "error"
    IN  [env_found |-> f[e].dir,
         create    |-> IF Has(r.trace, "CHECK_EXISTS") THEN createOc ELSE "none",
         registry  |-> IF ~Has(r.trace, "FETCH_METADATA") THEN "none"
                       ELSE IF reg1.code = 200 THEN "found" ELSE "missing",
         pip       |-> IF ran THEN oc ELSE "none",
         write     |-> IF ~ran THEN "none"
                       ELSE IF writeOk THEN "ok" ELSE "failed",
         version   |-> ran /\ oc = "exit0" /\ verOk]

\* The answers of the outside world that install_package consumes; an
\* answer the call never asks for is fixed rather than enumerated.
Install ==
    \E envArg \in EnvArgs, force \in BOOLEAN :
      \E createOc \in (IF envArg = NoEnv /\ ~fs[DefaultEnv].dir
                       THEN CreateOutcomesFor(NoPyVersion) ELSE {"ok"}) :
        LET p     == package
            e     == IF envArg = NoEnv THEN DefaultEnv ELSE envArg
            pip   == IF envArg = NoEnv /\ ~fs[DefaultEnv].dir
                     THEN createOc = "ok" ELSE fs[e].pip
            fetch == /\ IF envArg = NoEnv /\ ~fs[DefaultEnv].dir
                        THEN createOc = "ok" ELSE fs[e].dir
                     /\ (force \/ ~(fs[e].pip /\ p \in fs[e].pkgs))
        IN  \E reg1 \in (IF fetch THEN RegistryAnswers(p) ELSE {RegError}) :
            \E a \in (IF fetch /\ reg1.code = 200 /\ ~force
                      THEN Answers ELSE {NoAnswer}),
               reg2 \in (IF fetch /\ reg1.code = 200 /\ ~force
                         THEN SecurityFetches[p] ELSE {RegError}) :
              LET run == fetch /\ reg1.code = 200
                         /\ (force \/ ReadResponse(a) = AnsYes)
              IN  \E pipOc \in (IF run /\ pip THEN PipOutcomes ELSE {"error"}),
                     writeOk \in (IF run THEN BOOLEAN ELSE {TRUE}) :
                  \E verOk \in (IF run /\ pip /\ pipOc = "exit0"
                                THEN BOOLEAN ELSE {FALSE}) :
                  \E r \in {install_package(fs, log, p, envArg, force, createOc,
                                             reg1, reg2, a, pipOc, writeOk, verOk)} :
                        /\ Len(r.log) <= MaxLog
                        /\ fs' = r.fs
                        /\ log' = r.log
                        /\ last' = Call("install", envArg, force, a, r.security, r)
                        /\ world' = Met(fs, envArg, createOc, reg1, pipOc,
                                        writeOk, verOk, r)
                        /\ UNCHANGED <<package, listing, calls, checkerVars>>

Uninstall ==
    \E envArg \in EnvArgs :
      \E a \in (IF envArg = NoEnv \/ fs[envArg].dir
                THEN Answers ELSE {NoAnswer}) :
      \E oc \in (IF ReadResponse(a) = AnsYes
                    /\ fs[IF envArg = NoEnv THEN DefaultEnv ELSE envArg].pip
                 THEN UninstallOutcomes ELSE {"nonzero"}) :
      \E r \in {uninstall_package(fs, package, envArg, a, oc)} :
            /\ fs' = r.fs
            /\ last' = Call("uninstall", envArg, FALSE, a, "none", r)
            /\ world' = NoWorld
            /\ UNCHANGED <<log, package, listing, calls, checkerVars>>

\* EnvironmentManager on its own
NextEnv == Create \/ Remove \/ Info \/ List

SpecEnv == Init /\ [][NextEnv]_vars

\* PackageInstaller
Next == Install \/ Uninstall

Spec == Init /\ [][Next]_vars

(***************************************************************************)
(* create_environment statement by statement, for two concurrent callers.  *)
(* Nothing in the code locks the environments directory, so the steps of   *)
(* the two calls interleave freely.                                        *)
(***************************************************************************)
\* the disk after the creation step (venv.create) ran on directory e, which
\* the other caller may have made in the meantime
DiskAfterCreate(f, e, oc) ==
    CASE oc = "ok" ->
           [f EXCEPT ![e] = [dir |-> TRUE, py |-> TRUE, pip |-> TRUE,
                             pkgs |-> f[e].pkgs]]
      [] oc = "ensurepip_failed" ->
           [f EXCEPT ![e] = [dir |-> TRUE, py |-> TRUE, pip |-> f[e].pip,
                             pkgs |-> f[e].pkgs]]
      [] oc \in {"nopy", "error_dir"} ->
           [f EXCEPT ![e] = [dir |-> TRUE, py |-> f[e].py, pip |-> f[e].pip,
                             pkgs |-> f[e].pkgs]]
      [] OTHER -> f

\* Seeded fault: the creation step looks at the directory again and gives
\* up with "already exists" when it is there, as if test and creation
\* were one step under a lock.
venv_create_step_rechecks(f, call, oc) ==
    LET tr == Append(call.trace, "VENV_CREATE")
    IN  IF f[call.env].dir
        THEN [fs |-> f,
              call |-> [call EXCEPT !.pc = "done", !.message = "already exists"]]
        ELSE CASE oc = "ensurepip_failed" ->
               [fs |-> DiskAfterCreate(f, call.env, oc),
                call |-> [call EXCEPT !.pc = "done", !.trace = tr,
                                      !.message = "Failed to create environment"]]
          [] oc \in {"error_nodir", "error_dir"} ->
               [fs |-> DiskAfterCreate(f, call.env, oc),
                call |-> [call EXCEPT !.pc = "done", !.trace = tr,
                                      !.message = "Error creating environment"]]
          [] OTHER ->
               [fs |-> DiskAfterCreate(f, call.env, oc),
                call |-> [call EXCEPT !.pc = "created", !.trace = tr]]

\* venv.create(env_path, with_pip=True) and the except branches it can end in
venv_create_step(f, call, oc) ==
    LET tr == Append(call.trace, "VENV_CREATE")
    IN  CASE oc = "ensurepip_failed" ->
               [fs |-> DiskAfterCreate(f, call.env, oc),
                call |-> [call EXCEPT !.pc = "done", !.trace = tr,
                                      !.message = "Failed to create environment"]]
          [] oc \in {"error_nodir", "error_dir"} ->
               [fs |-> DiskAfterCreate(f, call.env, oc),
                call |-> [call EXCEPT !.pc = "done", !.trace = tr,
                                      !.message = "Error creating environment"]]
          [] OTHER ->
               [fs |-> DiskAfterCreate(f, call.env, oc),
                call |-> [call EXCEPT !.pc = "created", !.trace = tr]]

raceVars == <<log, package, last, world, listing, checkerVars>>

\* a caller enters create_environment(env_name) with no python_version
StartCreate ==
    \E c \in Callers, e \in EnvNames :
        /\ calls[c].pc = "idle"
        /\ calls' = [calls EXCEPT ![c] = [IdleCall EXCEPT !.pc = "called", !.env = e]]
        /\ UNCHANGED <<fs, raceVars>>

\* if os.path.exists(env_path): return False, "... already exists"
CheckExists ==
    \E c \in Callers :
        /\ calls[c].pc = "called"
        /\ calls' = [calls EXCEPT ![c] =
               IF EnvPathExists(fs, calls[c].env)
               THEN [@ EXCEPT !.pc = "done", !.message = "already exists",
                              !.trace = <<"CHECK_EXISTS">>]
               ELSE [@ EXCEPT !.pc = "checked", !.trace = <<"CHECK_EXISTS">>]]
        /\ UNCHANGED <<fs, raceVars>>

\* the creation step
VenvCreate ==
    \E c \in Callers :
        /\ calls[c].pc = "checked"
        /\ \E oc \in CreateOutcomesFor(NoPyVersion) :
           \E r \in {venv_create_step(fs, calls[c], oc)} :
              /\ fs' = r.fs
              /\ calls' = [calls EXCEPT ![c] = r.call]
        /\ UNCHANGED raceVars

\* the test of the interpreter path, then _install_basic_packages
VerifyCreation ==
    \E c \in Callers :
        /\ calls[c].pc = "created"
        /\ calls' = [calls EXCEPT ![c] =
               IF ~PythonExists(fs, calls[c].env)
               THEN [@ EXCEPT !.pc = "done",
                              !.message = "Failed to create Python executable",
                              !.trace = Append(@, "VERIFY_CREATION")]
               ELSE [@ EXCEPT !.pc = "done",
                              !.message = "created successfully",
                              !.trace = @ \o <<"VERIFY_CREATION", "BOOTSTRAP">>]]
        /\ UNCHANGED <<fs, raceVars>>

\* the call returns its message; the caller may call again
ReturnCreate ==
    \E c \in Callers :
        /\ calls[c].pc = "done"
        /\ calls' = [calls EXCEPT ![c] = IdleCall]
        /\ UNCHANGED <<fs, raceVars>>

NextRace ==
    StartCreate \/ CheckExists \/ VenvCreate \/ VerifyCreation \/ ReturnCreate

SpecRace == Init /\ [][NextRace]_vars

(***************************************************************************)
(* check_package_safety, one check at a time                               *)
(***************************************************************************)
RegistryContents(p) == {MetaClean(p), MetaFresh(p), MetaDirty(p), MetaBadTime(p)}

InitChecker ==
    /\ fs = [e \in EnvNames |-> AbsentEnv]
    /\ log = <<>>
    /\ package = PkgDemo
    /\ last = NoCall
    /\ registry = MetaClean(PkgDemo)
    /\ report = NewReport(PkgDemo, NoVersion)
    /\ pc = "idle"
    /\ world = NoWorld
    /\ listing = {}
    /\ calls = NoCalls

\* a caller invokes check_package_safety(package_name, version)
StartCheck ==
    /\ pc \in {"idle", "returned", "raised"}
    /\ \E name \in CheckerNames, version \in CheckerVersions :
         /\ registry' \in RegistryContents(name)
         /\ report' = NewReport(name, version)
    /\ pc' = "checking"
    /\ UNCHANGED installerVars

\* the next check of the try block runs, its result is stored and scored;
\* a check that raises ends the try block in the except branch
StepCheck ==
    /\ pc = "checking"
    /\ LET k == Len(report.checks) + 1
       IN  \E reg \in (IF Fetches(k)
                       THEN {RegError, RegNon200, Reg200(registry)}
                       ELSE {RegError}) :
           \E res \in {RunCheck(k, report.package, report.version, reg)} :
             IF res.status = "RAISED"
             THEN /\ report' = CheckFailed(report)
                  /\ pc' = "recommend"
             ELSE /\ report' = RecordCheck(report, k, res)
                  /\ pc' = IF k = Len(CheckNames) THEN "recommend" ELSE "checking"
    /\ UNCHANGED <<installerVars, registry>>

\* _generate_recommendations, then return safety_report
Recommend ==
    /\ pc = "recommend"
    /\ \E g \in {generate_recommendations(report)} :
         /\ report' = g.report
         /\ pc' = IF g.raised THEN "raised" ELSE "returned"
    /\ UNCHANGED <<installerVars, registry>>

NextChecker == StartCheck \/ StepCheck \/ Recommend

SpecChecker == InitChecker /\ [][NextChecker]_vars

(***************************************************************************)
(* _generate_recommendations on its own, called with a report of every     *)
(* overall_status, several scores and several lists of warnings            *)
(***************************************************************************)
OverallStatuses == {"SAFE", "WARNING", "FAIL", "CHECK_FAILED"}

ReportScores == {100, 90, 80, 70, 40, -20}

ReportWarnings ==
    {<<>>,
     <<"Untrusted domain">>,
     <<"Suspicious file extension">>,
     <<"Untrusted domain", "Suspicious dependency">>}

InitRecommend ==
    /\ fs = [e \in EnvNames |-> AbsentEnv]
    /\ log = <<>>
    /\ package = PkgDemo
    /\ last = NoCall
    /\ registry = MetaClean(PkgDemo)
    /\ \E st \in OverallStatuses, sc \in ReportScores, w \in ReportWarnings :
          report = [NewReport(PkgDemo, NoVersion) EXCEPT !.overall_status = st,
                                                        !.score = sc,
                                                        !.warnings = w]
    /\ pc = "recommend"
    /\ world = NoWorld
    /\ listing = {}
    /\ calls = NoCalls

SpecRecommend == InitRecommend /\ [][Recommend]_vars

(***************************************************************************)
(* Properties                                                              *)
(***************************************************************************)
CountStatus(checks, st) ==
    Cardinality({i \in DOMAIN checks : checks[i].status = st})

\* C1: every report returned by check_package_safety after all checks ran
\* has overall_status FAIL iff some check is FAIL, WARNING iff no check is
\* FAIL and some check is WARNING, and SAFE iff no check is FAIL or WARNING.
C1_OverallStatusFollowsChecks ==
    (pc = "returned" /\ Len(report.checks) = Len(CheckNames)) =>
        LET nf == CountStatus(report.checks, "FAIL")
            nw == CountStatus(report.checks, "WARNING")
        IN  /\ (report.overall_status = "FAIL") <=> (nf > 0)
            /\ (report.overall_status = "WARNING") <=> (nf = 0 /\ nw > 0)
            /\ (report.overall_status = "SAFE") <=> (nf = 0 /\ nw = 0)

InstalledMessages == {"successfully installed", "successfully installed (version)"}

\* C2: for a package whose security evaluation has a FAIL check (here: the
\* name fails basic validation), install never runs the install subprocess
\* and never reports a successful installation, with or without force.
C2_FailNeverReachesSubprocess ==
    (last.op = "install" /\ basic_validation(package, NoVersion).status = "FAIL")
        => /\ ~Has(last.trace, "INSTALL_SUBPROCESS")
           /\ last.message \notin InstalledMessages

\* the score is 100 - 20 * (FAIL checks so far) - 10 * (WARNING checks so far)
ScoreMatchesChecks ==
    report.score = 100 - 20 * CountStatus(report.checks, "FAIL")
                       - 10 * CountStatus(report.checks, "WARNING")

\* running a check does not increase the score
ScoreNeverIncreased ==
    [][pc = "checking" => report'.score <= report.score]_vars

\* C3: the score equals 100 - 20*#FAIL - 10*#WARNING after every prefix of
\* the checks, and running a check never increases it.
C3_ScoreIsAdditive == []ScoreMatchesChecks /\ ScoreNeverIncreased

C3_Witness ==
    /\ pc = "checking"
    /\ CountStatus(report.checks, "FAIL") >= 1
    /\ CountStatus(report.checks, "WARNING") >= 2
    /\ report.score = 60

SecondCallIsNoOp ==
    /\ last'.success
    /\ last'.message = "already installed"
    /\ ~Has(last'.trace, "SECURITY_CHECK")
    /\ ~Has(last'.trace, "INSTALL_SUBPROCESS")
    /\ log' = log

SameInstallAgain ==
    /\ last.op = "install" /\ ~last.force
    /\ last'.op = "install" /\ ~last'.force
    /\ last'.env = last.env

\* C4 as stated: whenever install without force returns success and is
\* called again with the same name and environment without force, the
\* second call answers "already installed", checks nothing, runs no
\* subprocess and appends no record.
C4_SuccessThenAlreadyInstalled ==
    [][(SameInstallAgain /\ last.success) => SecondCallIsNoOp]_vars

\* C4 amended: the same, when the first call succeeded by installing the
\* package or by finding it installed (not by being skipped at the prompt).
C4_InstalledThenAlreadyInstalled ==
    [][(SameInstallAgain /\ last.success
          /\ last.message \in InstalledMessages \cup {"already installed"})
        => SecondCallIsNoOp]_vars

C4_Witness ==
    /\ last.op = "install" /\ ~last.force
    /\ last.message = "already installed"
    /\ log # <<>>
    /\ log[Len(log)].success
    /\ log[Len(log)].package.name = package

\* C5: remove on an existing environment with any answer other than the
\* affirmative one changes no environment directory and returns the
\* cancelled failure; so a directory is deleted only after "yes".
C5_DeclinedRemoveChangesNothing ==
    [][(last'.op = "remove" /\ fs[last'.env].dir
          /\ ReadResponse(last'.answer) # AnsYes)
        => (fs' = fs /\ ~last'.success
              /\ last'.message = "Environment deletion cancelled")]_vars

C5_Witness ==
    /\ last.op = "remove"
    /\ last.answer = AnsY
    /\ last.message = "Environment deletion cancelled"
    /\ fs[last.env] = FreshEnv

\* C6: uninstall with a declined confirmation runs no uninstall subprocess
\* and returns a failure (UserCancelled), not a success.
C6_DeclinedUninstallIsFailure ==
    (last.op = "uninstall" /\ Has(last.trace, "CONFIRM")
       /\ ReadResponse(last.answer) # AnsYes)
        => (~Has(last.trace, "UNINSTALL_SUBPROCESS") /\ ~last.success)

\* C7: create on a name whose directory exists returns the already-exists
\* failure and leaves every environment as it was.
C7_CreateExistingChangesNothing ==
    [][(last'.op = "create" /\ fs[last'.env].dir)
        => (fs' = fs /\ ~last'.success /\ last'.message = "already exists")]_vars

C7_Witness ==
    /\ last.op = "create"
    /\ last.message = "already exists"
    /\ fs[last.env] = FreshEnv

\* C8: at the approval prompt of install (force = False), "yes" goes on to
\* the install subprocess; "skip" returns success "skipped by user" with no
\* subprocess and no record; anything else returns the cancelled failure
\* with no subprocess and no record.
C8_ApprovalGateOutcomes ==
    [][(last'.op = "install" /\ Has(last'.trace, "APPROVAL_GATE")) =>
        LET r == ReadResponse(last'.answer)
        IN  /\ ~last'.force
            /\ (r = AnsYes) => Has(last'.trace, "INSTALL_SUBPROCESS")
            /\ (r = AnsSkipLower) =>
                  /\ last'.success
                  /\ last'.message = "Installation skipped by user"
            /\ (r \notin {AnsYes, AnsSkipLower}) =>
                  /\ ~last'.success
                  /\ last'.message = "Installation cancelled by user"
            /\ (r # AnsYes) =>
                  /\ ~Has(last'.trace, "INSTALL_SUBPROCESS")
                  /\ log' = log]_vars

C8_Witness ==
    /\ last.op = "install"
    /\ last.answer = AnsSkip
    /\ last.message = "Installation skipped by user"
    /\ log # <<>>

\* position of a step in the steps of a call, 0 when absent
Pos(tr, step) ==
    IF Has(tr, step) THEN CHOOSE i \in DOMAIN tr : tr[i] = step ELSE 0

\* C9: the install subprocess runs only after RESOLVE_ENV,
\* CHECK_ALREADY_INSTALLED, FETCH_METADATA and SECURITY_CHECK have run, in
\* that order, also when force is set.
C9_StagesBeforeSubprocess ==
    (last.op = "install" /\ Has(last.trace, "INSTALL_SUBPROCESS")) =>
        /\ 0 < Pos(last.trace, "RESOLVE_ENV")
        /\ Pos(last.trace, "RESOLVE_ENV") < Pos(last.trace, "CHECK_ALREADY_INSTALLED")
        /\ Pos(last.trace, "CHECK_ALREADY_INSTALLED") < Pos(last.trace, "FETCH_METADATA")
        /\ Pos(last.trace, "FETCH_METADATA") < Pos(last.trace, "SECURITY_CHECK")
        /\ Pos(last.trace, "SECURITY_CHECK") < Pos(last.trace, "INSTALL_SUBPROCESS")

OneRecordAppended ==
    /\ Len(log') = Len(log) + 1
    /\ SubSeq(log', 1, Len(log)) = log
    /\ log'[Len(log')].success = last'.success
    /\ log'[Len(log')].package.name = package

\* C10 as stated: an install call that reaches the subprocess appends
\* exactly one record and leaves the earlier ones unchanged; a call that
\* ends before the subprocess appends none.
C10_OneRecordPerAttempt ==
    [][last'.op = "install" =>
        IF Has(last'.trace, "INSTALL_SUBPROCESS")
        THEN OneRecordAppended
        ELSE log' = log]_vars

\* C10 amended: an install call that reaches the subprocess appends exactly
\* one record when the log line can be written and none when the write
\* fails; earlier records are never changed; a call that ends before the
\* subprocess appends none.
C10_OneRecordPerLoggedAttempt ==
    [][last'.op = "install" =>
        IF Has(last'.trace, "INSTALL_SUBPROCESS") /\ Has(last'.trace, "LOG")
        THEN OneRecordAppended
        ELSE log' = log]_vars

C10_Witness ==
    /\ last.op = "install"
    /\ Has(last.trace, "LOG")
    /\ Len(log) = 2
    /\ log[1].success /\ ~log[2].success


FailingOutcomes == {"nonzero", "timeout", "error"}

\* what install returns and logs for each thing the subprocess can do
FailureDetail(pipOc) ==
    CASE pipOc = "nonzero" -> [message |-> "Installation failed", error |-> "stderr"]
      [] pipOc = "timeout" -> [message |-> "Installation timeout",
                               error |-> "Installation timeout"]
      [] OTHER             -> [message |-> "Installation error",
                               error |-> "Installation error"]

ResultOfSubprocess(pipOc, version) ==
    IF pipOc = "exit0"
    THEN [success |-> TRUE,
          message |-> IF version THEN "successfully installed (version)"
                                 ELSE "successfully installed"]
    ELSE [success |-> FALSE, message |-> FailureDetail(pipOc).message]

\* C11: the success flag and message install returns are those of the
\* subprocess outcome (and of the version query), the same whether the log
\* line was written or the write failed; a failed write is reported nowhere
\* in the result.
C11_LogWriteFailureNotSurfaced ==
    (last.op = "install" /\ world.pip # "none") =>
        /\ world.write \in {"ok", "failed"}
        /\ last.success = ResultOfSubprocess(world.pip, world.version).success
        /\ last.message = ResultOfSubprocess(world.pip, world.version).message

C11_Witness ==
    /\ last.op = "install"
    /\ world.write = "failed"
    /\ world.pip = "exit0"
    /\ last.success
    /\ last.message = "successfully installed (version)"
    /\ log = <<>>

FailureReturned ==
    /\ ~last.success
    /\ last.message = FailureDetail(world.pip).message

FailedRecordLogged ==
    /\ log # <<>>
    /\ ~log[Len(log)].success
    /\ log[Len(log)].error = FailureDetail(world.pip).error
    /\ log[Len(log)].package.name = package

\* C12 as stated: when the install subprocess exits non-zero, raises or
\* times out, install returns the matching failure, never success, and the
\* log ends with the failed record carrying the error detail.
C12_SubprocessFailureLoggedAndReturned ==
    (last.op = "install" /\ world.pip \in FailingOutcomes) =>
        /\ FailureReturned
        /\ FailedRecordLogged

\* C12 amended: in these cases install returns the matching failure, never
\* success; the log ends with the failed record when the log line could be
\* written.
C12_SubprocessFailureReturned ==
    (last.op = "install" /\ world.pip \in FailingOutcomes) =>
        /\ FailureReturned
        /\ world.write = "ok" => FailedRecordLogged

C12_Witness ==
    /\ last.op = "install"
    /\ world.pip = "timeout"
    /\ last.message = "Installation timeout"
    /\ ~last.success
    /\ log # <<>>
    /\ log[Len(log)].error = "Installation timeout"
    /\ ~log[Len(log)].success

CreateFailureMessages ==
    {"Error creating environment", "Failed to create environment",
     "Failed to create Python executable"}

NothingAfterResolve ==
    /\ world.registry = "none"
    /\ world.pip = "none"
    /\ world.write = "none"
    /\ ~Has(last.trace, "FETCH_METADATA")
    /\ ~Has(last.trace, "INSTALL_SUBPROCESS")
    /\ ~Has(last.trace, "LOG")

\* C13: install with a named environment that does not exist returns
\* "Environment not found" after RESOLVE_ENV alone (no environment created,
\* no registry fetch, no subprocess, no record); without a name it uses the
\* default environment, creates it when absent, and when that creation
\* fails returns the creation failure with no subprocess and no record.
C13_ResolveEnv ==
    last.op = "install" =>
        /\ (last.env # NoEnv /\ ~world.env_found) =>
              /\ ~last.success /\ last.message = "Environment not found"
              /\ last.trace = <<"RESOLVE_ENV">>
              /\ ~fs[last.env].dir
              /\ world.create = "none"
              /\ NothingAfterResolve
        /\ (last.env = NoEnv /\ ~world.env_found) =>
              /\ Has(last.trace, "VENV_CREATE")
              /\ IF world.create = "ok"
                 THEN fs[DefaultEnv].dir /\ fs[DefaultEnv].py
                 ELSE /\ ~last.success
                      /\ last.message \in CreateFailureMessages
                      /\ NothingAfterResolve
        /\ (last.env = NoEnv /\ world.env_found) =>
              /\ ~Has(last.trace, "VENV_CREATE")
              /\ world.create = "none"
        /\ (last.env = NoEnv /\ world.pip = "exit0") =>
              package \in fs[DefaultEnv].pkgs

C13_Witness ==
    /\ last.op = "install"
    /\ last.env = NoEnv
    /\ world.create = "nopy"
    /\ last.message = "Failed to create Python executable"
    /\ fs[DefaultEnv] = PartialEnv
    /\ log # <<>>

\* C14: when the metadata fetch of install is answered with a non-200
\* status or fails, install returns "not found in PyPI" as a failure, with
\* and without force, without the approval gate, the install subprocess or
\* a record.
C14_PackageNotFound ==
    (last.op = "install" /\ world.registry = "missing") =>
        /\ ~last.success /\ last.message = "not found in PyPI"
        /\ ~Has(last.trace, "APPROVAL_GATE")
        /\ ~Has(last.trace, "SECURITY_CHECK")
        /\ ~Has(last.trace, "INSTALL_SUBPROCESS")
        /\ ~Has(last.trace, "LOG")
        /\ world.pip = "none" /\ world.write = "none"

C14_Witness ==
    /\ last.op = "install"
    /\ last.force
    /\ last.env = "envA"
    /\ world.registry = "missing"
    /\ last.message = "not found in PyPI"
    /\ fs["envA"].pip
    /\ log # <<>>

CallEnded == pc \in {"recommend", "returned", "raised"}

\* C15: an exception raised inside one check (basic validation with an
\* unusual version included) is confined to it: when the checks are over,
\* every check of the fixed order is recorded and the report is not marked
\* CHECK_FAILED as a whole.
C15_CheckExceptionConfined ==
    CallEnded =>
        /\ Len(report.checks) = Len(CheckNames)
        /\ report.overall_status # "CHECK_FAILED"

\* position of a check in the fixed order
CheckIndex(name) == CHOOSE k \in DOMAIN CheckNames : CheckNames[k] = name

MetadataCheck == CheckIndex("metadata")

\* C16: a registry fetch that fails or is answered non-200 makes the check
\* about to run return PASS with no issues and no warnings, leaving the
\* score alone, except the metadata check, which returns FAIL.
C16_RegistryFailureIsPass ==
    pc = "checking" =>
        LET k == Len(report.checks) + 1
        IN  Fetches(k) =>
              \A reg \in {RegError, RegNon200} :
                LET res == RunCheck(k, report.package, report.version, reg)
                IN  IF k = MetadataCheck
                    THEN res.status = "FAIL"
                    ELSE /\ res = PassResult
                         /\ RecordCheck(report, k, res).score = report.score

\* C17: check_package_safety always returns a report; when an exception
\* escaped from a check, the report returned has overall_status
\* CHECK_FAILED and the failure recorded in critical_issues.
C17_EscapedExceptionReported ==
    /\ pc # "raised"
    /\ (CallEnded /\ Len(report.checks) < Len(CheckNames)) =>
          /\ report.overall_status = "CHECK_FAILED"
          /\ \E i \in DOMAIN report.critical_issues :
                report.critical_issues[i] = "Security check failed"

C17_Witness ==
    /\ pc = "returned"
    /\ report.overall_status = "CHECK_FAILED"
    /\ report.checks = <<>>

\* what check_package_safety stores for check k
CheckRecord(k, res) ==
    [name |-> CheckNames[k], status |-> res.status, issues |-> res.issues,
     warnings |-> res.warnings]

\* the call has returned a report for this name and registry content, the
\* registry having answered 200 to the fetch of every check
Scenario(name, version, meta) ==
    /\ pc = "returned"
    /\ report.package = name /\ report.version = version
    /\ registry = meta
    /\ Len(report.checks) = Len(CheckNames)
    /\ \A k \in DOMAIN report.checks :
          report.checks[k] = CheckRecord(k, RunCheck(k, name, version, Reg200(meta)))

NonPassChecks == {k \in DOMAIN report.checks : report.checks[k].status # "PASS"}

AgeCheck == CheckIndex("age_popularity")

\* C18: clean package (valid name and version, MIT license, published 400
\* days ago, 50000 downloads, one 2048-byte wheel on files.pythonhosted.org):
\* every check is PASS, the score is 100, overall_status is SAFE and the
\* download check has no untrusted-domain warning.
C18_CleanPackageIsSafe ==
    Scenario(PkgRequests, Ver100, MetaClean(PkgRequests)) =>
        /\ NonPassChecks = {}
        /\ report.score = 100
        /\ report.overall_status = "SAFE"
        /\ \A i \in DOMAIN report.warnings : report.warnings[i] # "Untrusted domain"

\* C19: the same package published 3 days ago: the age/popularity check is
\* WARNING and the only check that is not PASS, the score is 90 and
\* overall_status is WARNING.
C19_FreshPackageIsWarning ==
    Scenario(PkgRequests, Ver100, MetaFresh(PkgRequests)) =>
        /\ NonPassChecks = {AgeCheck}
        /\ report.checks[AgeCheck].status = "WARNING"
        /\ report.score = 90
        /\ report.overall_status = "WARNING"

\* names that hold a denylisted substring or do not match the identifier
\* pattern
RejectedNames == {PkgSteal, PkgBadName}

\* C20: for a name with a denylisted substring or not matching the
\* identifier pattern, the report returned has the basic-validation check
\* FAIL, a score of at most 80 and overall_status FAIL.
C20_BadNameFails ==
    (pc = "returned" /\ report.package \in RejectedNames) =>
        /\ report.checks # <<>>
        /\ report.checks[1].status = "FAIL"
        /\ report.score <= 80
        /\ report.overall_status = "FAIL"

\* C21: list reports exactly the environments whose directory is present,
\* each with exists = "the interpreter path is on disk"; info returns
\* nothing only for an absent directory and otherwise reports exists the
\* same way.
C21_ExistsFollowsInterpreter ==
    [][/\ last'.op = "list" =>
            \A e \in EnvNames :
                /\ [name |-> e, exists |-> fs[e].py] \in listing' <=> fs[e].dir
                /\ [name |-> e, exists |-> ~fs[e].py] \notin listing'
       /\ last'.op = "info" =>
            /\ last'.message = "not found" <=> ~fs[last'.env].dir
            /\ last'.message = "exists=true"
                  <=> (fs[last'.env].dir /\ fs[last'.env].py)
            /\ last'.message = "exists=false"
                  <=> (fs[last'.env].dir /\ ~fs[last'.env].py)]_vars

C21_Witness ==
    /\ last.op = "list"
    /\ fs["envA"] = PartialEnv
    /\ listing = {[name |-> "envA", exists |-> FALSE],
                  [name |-> DefaultEnv, exists |-> TRUE]}

\* C22: create returns success only if the interpreter path exists after
\* the creation step; when the step returns and the path is absent, create
\* returns the verification failure and does not run the bootstrap of the
\* base toolchain.
C22_CreateVerifiesInterpreter ==
    [][last'.op = "create" =>
        /\ last'.success => fs'[last'.env].py
        /\ Has(last'.trace, "BOOTSTRAP") => fs'[last'.env].py
        /\ (Has(last'.trace, "VERIFY_CREATION") /\ ~fs'[last'.env].py) =>
              /\ ~last'.success
              /\ last'.message = "Failed to create Python executable"
              /\ ~Has(last'.trace, "BOOTSTRAP")]_vars

C22_Witness ==
    /\ last.op = "create"
    /\ world.create = "nopy"
    /\ ~last.success
    /\ last.message = "Failed to create Python executable"
    /\ last.trace = <<"CHECK_EXISTS", "FIND_PYTHON", "VENV_CREATE", "VERIFY_CREATION">>
    /\ fs[last.env] = PartialEnv

\* outcomes of the creation step that leave the directory on disk while the
\* create call fails
DirectoryMadeThenFailed ==
    {"nopy", "called_process_error", "ensurepip_failed", "error_dir"}

\* this step is a create call on e that failed after the directory was made
FailedCreateOf(e) ==
    /\ last'.op = "create" /\ last'.env = e
    /\ ~fs[e].dir
    /\ world'.create \in DirectoryMadeThenFailed

\* this step is a remove call on e whose confirmation was given
ConfirmedRemoveOf(e) ==
    /\ last'.op = "remove" /\ last'.env = e
    /\ ReadResponse(last'.answer) = AnsYes

\* the directory of e is on disk without an interpreter
Broken(f, e) == f[e].dir /\ ~f[e].py

\* C28 as stated: a create call that fails after the directory was made
\* leaves the directory on disk without an interpreter; from then on, until
\* a remove call on it is confirmed, it stays so, create on it answers
\* "already exists" and info reports it with exists=false.
C28_FailedCreateLeavesBrokenDir ==
    [][\A e \in EnvNames :
        /\ FailedCreateOf(e) => (~last'.success /\ Broken(fs', e))
        /\ (Broken(fs, e) /\ ~ConfirmedRemoveOf(e)) => Broken(fs', e)
        /\ (Broken(fs, e) /\ last'.op = "create" /\ last'.env = e) =>
              last'.message = "already exists"
        /\ (Broken(fs, e) /\ last'.op = "info" /\ last'.env = e) =>
              last'.message = "exists=false"]_vars

\* C28 amended: a create call that fails after the directory was made
\* leaves the directory on disk, without an interpreter when the failure is
\* the verification failure; until a remove call on it is confirmed the
\* directory stays as it was left, create on it answers "already exists",
\* and info reports exists=false exactly when the interpreter is absent.
C28_FailedCreateLeavesDir ==
    [][\A e \in EnvNames :
        /\ FailedCreateOf(e) =>
              /\ ~last'.success
              /\ fs'[e].dir
              /\ world'.create = "nopy" => ~fs'[e].py
        /\ (fs[e].dir /\ ~ConfirmedRemoveOf(e)) => fs'[e] = fs[e]
        /\ (fs[e].dir /\ last'.op = "create" /\ last'.env = e) =>
              last'.message = "already exists"
        /\ (fs[e].dir /\ last'.op = "info" /\ last'.env = e) =>
              (last'.message = "exists=false" <=> ~fs[e].py)]_vars

C28_Witness ==
    /\ last.op = "create"
    /\ last.message = "already exists"
    /\ fs[last.env] = NoPipEnv

VulnerabilityCheck == CheckIndex("vulnerabilities")

\* the package is in the static table and the version given is older than
\* the version the table names as the earliest safe one
OlderThanSafe(name, version) ==
    \E row \in VulnerablePackages :
        /\ row.package = Lower(name)
        /\ version # <<>>
        /\ is_version_older(version, DropFirst(row.threshold, 1))

\* C23: the known-vulnerability check recorded in the report is FAIL for a
\* package of the static table with a version older than the table's
\* earliest safe version, and PASS otherwise.
C23_KnownVulnerabilityCheck ==
    Len(report.checks) >= VulnerabilityCheck =>
        report.checks[VulnerabilityCheck].status =
            IF OlderThanSafe(report.package, report.version)
            THEN "FAIL" ELSE "PASS"

\* the environment the install subprocess of the most recent call ran in
TargetEnv == IF last.env = NoEnv THEN DefaultEnv ELSE last.env

\* C24: the record an install call appends carries as target environment
\* the environment its install subprocess ran against: the env argument
\* when given, the default environment otherwise.
C24_RecordNamesTargetEnvironment ==
    (last.op = "install" /\ world.write = "ok") =>
        /\ log # <<>>
        /\ log[Len(log)].environment = TargetEnv

\* C25: when the install subprocess exits with code 0, install returns
\* success and the package is installed whether or not the version query
\* afterwards finds a version; the query only decides whether the success
\* message carries the version.
C25_VerifyIsNonFatal ==
    (last.op = "install" /\ world.pip = "exit0") =>
        /\ last.success
        /\ Has(last.trace, "VERIFY")
        /\ package \in fs[TargetEnv].pkgs
        /\ last.message = IF world.version
                          THEN "successfully installed (version)"
                          ELSE "successfully installed"

C25_Witness ==
    /\ last.op = "install"
    /\ world.pip = "exit0"
    /\ ~world.version
    /\ world.write = "ok"
    /\ last.success
    /\ last.message = "successfully installed"
    /\ log[Len(log)].success

\* the age/popularity check of this call has run on a 200 answer of the
\* registry
AgeCheckRanOnMetadata ==
    /\ Len(report.checks) >= AgeCheck
    /\ report.checks[AgeCheck] =
          CheckRecord(AgeCheck, check_package_age_and_popularity(Reg200(registry)))

\* published fewer than 30 days ago, or downloaded never or very rarely
YoungOrUnpopular ==
    \/ registry.upload_time = "valid" /\ registry.upload_days < 30
    \/ registry.upload_time # "badformat" /\ registry.downloads < 100

\* C27: for a package published fewer than 30 days ago, or with a download
\* count of zero or under 100, the age/popularity check is WARNING, so that
\* it costs 10 points and its warnings enter the warnings of the report.
C27_AgeCheckWarning ==
    (AgeCheckRanOnMetadata /\ YoungOrUnpopular) =>
        /\ report.checks[AgeCheck].status = "WARNING"
        /\ \A i \in DOMAIN report.checks[AgeCheck].warnings :
              \E j \in DOMAIN report.warnings :
                 report.warnings[j] = report.checks[AgeCheck].warnings[i]

\* the scores nine checks can leave: 100 less 10 for each of up to 18 tens
PossibleScores == {100 - 10 * n : n \in 0..(2 * Len(CheckNames))}

\* C30: the score of a report is a multiple of 10 between -80 and 100, it
\* is not clamped at 0, and a report with score 100 has no check with
\* status FAIL or WARNING.
C30_ScoreRange ==
    /\ report.score \in PossibleScores
    /\ report.score >= 100 - 20 * Len(CheckNames)
    /\ report.score = 100 =>
          \A k \in DOMAIN report.checks :
              report.checks[k].status \notin {"FAIL", "WARNING"}

C30_Witness ==
    /\ pc = "returned"
    /\ report.score < 0
    /\ Len(report.checks) = Len(CheckNames)
    /\ CountStatus(report.checks, "WARNING") = 0

Recommends(text) ==
    \E i \in DOMAIN report.recommendations : report.recommendations[i] = text

C29_CreateDoesNotLock ==
    [][\A c \in Callers :
        /\ (calls[c].pc = "checked" /\ calls'[c] # calls[c]) =>
              /\ Has(calls'[c].trace, "VENV_CREATE")
              /\ calls'[c].message # "already exists"
        /\ (calls'[c].message = "already exists" /\ calls'[c] # calls[c]) =>
              /\ calls[c].pc = "called"
              /\ fs[calls[c].env].dir]_vars

\* both calls passed the test on the same absent directory, both ran the
\* creation step on it and both report that they created the environment
C29_Witness ==
    \A c \in Callers :
        /\ calls[c].pc = "done"
        /\ calls[c].env = "envA"
        /\ Has(calls[c].trace, "VENV_CREATE")
        /\ calls[c].message = "created successfully"
=============================================================================
